---- MODULE Spec2Model ----
(***************************************************************************)
(* A model of app/main.py: the FastAPI QR platform.                        *)
(*                                                                         *)
(* State: the audit table `logs` behind the one shared sqlite connection   *)
(* and cursor, the per-(ip, endpoint) counters of the slowapi limiter, and *)
(* the requests in flight, each with the position of its coroutine.        *)
(*                                                                         *)
(* Strings are sequences of symbols.  The literal "|compressed" of lines   *)
(* 139 and 196 is one symbol; the Chinese message texts of the source are  *)
(* glossed in ASCII because the module is ASCII.                           *)
(***************************************************************************)
EXTENDS Integers, Sequences, FiniteSets, TLC

\* ------------------------------------------------------------------ bounds
\* Capacity of the largest symbol at error-correction level L, in symbols of
\* the modelled alphabet (the library's value is 2953 bytes).
CapL == 4
\* Level M carries strictly less than level L (line 141: L is the level of
\* largest capacity).
CapM == CapL - 1
MaxTextLen == CapL + 1
\* Requests of the mixed workload (Next).
MaxRequests == 2
\* Requests a burst sends beyond the quota (NextBurst).
BurstExtra == 1
\* "5/minute" of lines 123, 179 and 210.
Quota == 5

\* ------------------------------------------------------------------ codec
MARKER == <<"|compressed">>
Symbols == {"a", "z", "|compressed"}
Texts == UNION {[1..n -> Symbols] : n \in 0..MaxTextLen}

EndsWith(d, m) ==
    /\ Len(d) >= Len(m)
    /\ SubSeq(d, Len(d) - Len(m) + 1, Len(d)) = m

\* data[:-11]
StripMarker(d) == SubSeq(d, 1, Len(d) - Len(MARKER))

\* base64.b64encode(zlib.compress(.)): a lossless code whose output never holds
\* the "|" of the marker.  A header symbol, then one codeword per symbol.
Codeword(s) ==
    CASE s = "a" -> <<"a">>
      [] s = "z" -> <<"z", "a">>
      [] OTHER   -> <<"z", "z">>

RECURSIVE Deflate(_)
Deflate(t) == IF t = <<>> THEN <<>> ELSE Codeword(Head(t)) \o Deflate(Tail(t))

B64Zlib(t) == <<"z">> \o Deflate(t)

\* zlib.decompress(base64.b64decode(.)): the inverse where there is one, and an
\* exception (ok = FALSE) on anything that is not a codeword stream.
RECURSIVE Inflate(_)
Inflate(d) ==
    IF d = <<>> THEN [ok |-> TRUE, text |-> <<>>]
    ELSE IF Head(d) = "a"
        THEN LET rest == Inflate(Tail(d))
             IN [ok |-> rest.ok, text |-> <<"a">> \o rest.text]
    ELSE IF Head(d) = "z" /\ Len(d) >= 2 /\ d[2] \in {"a", "z"}
        THEN LET rest == Inflate(SubSeq(d, 3, Len(d)))
                 s == IF d[2] = "a" THEN "z" ELSE "|compressed"
             IN [ok |-> rest.ok, text |-> <<s>> \o rest.text]
    ELSE [ok |-> FALSE, text |-> <<>>]

UnB64Zlib(d) ==
    IF d # <<>> /\ Head(d) = "z"
    THEN Inflate(Tail(d))
    ELSE [ok |-> FALSE, text |-> <<>>]

\* What generate_qr hands to qr.add_data (lines 137-139).
Payload(text, compress) ==
    IF compress THEN B64Zlib(text) \o MARKER ELSE text

Capacity(ec) == IF ec = "L" THEN CapL ELSE CapM

\* qr.make(fit=True) at level ec: TRUE when a version holds the data, FALSE for
\* DataOverflowError.
Fits(data, ec) == Len(data) <= Capacity(ec)

NoImage == [qr |-> FALSE, payload |-> <<>>, ec |-> "-", logo |-> FALSE]
QRImage(data, ec, logo) == [qr |-> TRUE, payload |-> data, ec |-> ec, logo |-> logo]

\* The error-correction levels generate_qr asks for, in order (lines 142-152).
AttemptsWithoutRetry(data) == <<"L">>
Attempts(data) == IF Fits(data, "L") THEN <<"L">> ELSE <<"L", "M">>

\* The body of generate_qr up to its log_action call: the kind of outcome,
\* the levels tried, the image.  `fault` is an exception of the imaging
\* libraries (make_image, save) that is none of the handler's own.
Encode(text, compress, logo, fault) ==
    IF text = <<>>
    THEN [kind |-> "validation", attempts |-> <<>>, img |-> NoImage]
    ELSE LET data == Payload(text, compress)
             tried == Attempts(data)
             ec == tried[Len(tried)]
         IN IF ~Fits(data, ec)
            THEN [kind |-> "capacity", attempts |-> tried, img |-> NoImage]
            ELSE IF fault
            THEN [kind |-> "fault", attempts |-> tried, img |-> NoImage]
            ELSE IF logo = "bad"
            THEN [kind |-> "logo", attempts |-> tried, img |-> NoImage]
            ELSE [kind |-> "ok", attempts |-> tried,
                  img |-> QRImage(data, ec, logo = "good")]

\* detector.detectAndDecode on the enhanced image (lines 184-191).
DetectAndDecode(img) == IF img.qr THEN img.payload ELSE <<>>

\* The body of decode_qr up to its log_action call.
Decode(img, fault) ==
    IF fault THEN [kind |-> "fault", text |-> <<>>]
    ELSE LET data == DetectAndDecode(img)
         IN IF data = <<>> THEN [kind |-> "not_found", text |-> <<>>]
            ELSE IF EndsWith(data, MARKER)
            THEN LET r == UnB64Zlib(StripMarker(data))
                 IN IF r.ok THEN [kind |-> "ok", text |-> r.text]
                    ELSE [kind |-> "decompression", text |-> <<>>]
            ELSE [kind |-> "ok", text |-> data]

\* The body of ocr_image up to its log_action call; `lines` is what
\* reader.readtext found, joined and stripped.
Recognize(lines, fault) ==
    IF fault THEN [kind |-> "fault", text |-> <<>>]
    ELSE IF lines = <<>> THEN [kind |-> "not_found", text |-> <<>>]
    ELSE [kind |-> "ok", text |-> lines]

\* --------------------------------------------------------------- requests
IPs == {"ip1", "ip2"}
Limited == {"/generate", "/decode", "/ocr"}
Others == {"/", "/stats", "/logs/export", "/health"}
Paths == Limited \cup Others

NoInput ==
    [text |-> <<>>, compress |-> FALSE, logo |-> "none", fault |-> FALSE,
     img |-> NoImage, lines |-> <<>>, src |-> 0]

GenInput(text, compress, logo, fault) ==
    [NoInput EXCEPT !.text = text, !.compress = compress, !.logo = logo,
                    !.fault = fault]
DecInput(img, fault, src) ==
    [NoInput EXCEPT !.img = img, !.fault = fault, !.src = src]
OcrInput(lines, fault) == [NoInput EXCEPT !.lines = lines, !.fault = fault]

LongText == [i \in 1..(CapL + 1) |-> "a"]

\* The forms the mixed workload posts: one per outcome of each handler.
GenSamples ==
    {GenInput(<<>>, FALSE, "none", FALSE),
     GenInput(<<"a">>, FALSE, "none", FALSE),
     GenInput(<<"a">>, TRUE, "good", FALSE),
     GenInput(LongText, FALSE, "none", FALSE),
     GenInput(<<"a">>, FALSE, "bad", FALSE),
     GenInput(<<"a">>, FALSE, "none", TRUE)}
DecSamples ==
    {DecInput(NoImage, FALSE, 0),
     DecInput(QRImage(<<"a">>, "L", FALSE), FALSE, 0),
     DecInput(QRImage(Payload(<<"a">>, TRUE), "L", FALSE), FALSE, 0),
     DecInput(QRImage(<<"a", "a">> \o MARKER, "L", FALSE), FALSE, 0),
     DecInput(QRImage(<<"a">>, "L", FALSE), TRUE, 0)}
OcrSamples ==
    {OcrInput(<<"a">>, FALSE), OcrInput(<<>>, FALSE), OcrInput(<<"a">>, TRUE)}

Samples(path) ==
    CASE path = "/generate" -> GenSamples
      [] path = "/decode"   -> DecSamples
      [] path = "/ocr"      -> OcrSamples
      [] OTHER              -> {NoInput}

NoBody == [img |-> NoImage, text |-> <<>>, stats |-> <<>>, rows |-> <<>>]

\* A request as log_requests receives it.  kind, attempts, seq, handled, snap,
\* torn, calls and lost record what happened to it and are read by nothing in
\* the program.
NewRequest(ip, path, in) ==
    [ip |-> ip, path |-> path, in |-> in, pc |-> "call_next",
     admitted |-> FALSE, seq |-> 0, kind |-> "-", attempts |-> <<>>,
     status |-> 0, detail |-> "", body |-> NoBody, handled |-> 0,
     q |-> 0, acc |-> <<>>, snap |-> 0, torn |-> FALSE,
     calls |-> 0, lost |-> 0]

VARIABLES
    reqs,       \* the requests received so far, in order of arrival
    loop,       \* the request whose coroutine the event loop is running, or 0
    logs,       \* the rows of table logs, in id order
    cursor,     \* the result set the shared cursor holds
    hits,       \* limiter: admitted calls of the current window, per key
    seen        \* calls the limiter checked in the current window, per key

vars == <<reqs, loop, logs, cursor, hits, seen>>

Keys == IPs \X Limited

\* The cursor with no result set left to fetch.
NoResult == [owner |-> 0, count |-> 0, rows |-> <<>>]

Init ==
    /\ reqs = <<>>
    /\ loop = 0
    /\ logs = <<>>
    /\ cursor = NoResult
    /\ hits = [k \in Keys |-> 0]
    /\ seen = [k \in Keys |-> 0]

\* ------------------------------------------------------------ audit store
\* INSERT INTO logs ...: id is AUTOINCREMENT; rid names the request that wrote
\* the row and is no column.  The value of datetime.now() is not modelled.
Row(r, action, details) ==
    [id |-> Len(logs) + 1, ip |-> reqs[r].ip, timestamp |-> "now",
     action |-> action, details |-> details, rid |-> r]

\* cursor.execute + conn.commit of log_action; ok = FALSE is sqlite raising.
Inserted(ok, row) == IF ok THEN Append(logs, row) ELSE logs

\* Whether log_action lets the sqlite exception out: it never does
\* (lines 79-80).
LogActionPropagates(ok) == ~ok
LogActionRaises(ok) == FALSE

CountActionLike(a) ==
    Cardinality({i \in DOMAIN logs : logs[i].action \in {a, a \o "_error"}})
CountAction(a) == Cardinality({i \in DOMAIN logs : logs[i].action = a})

\* The four SELECTs of get_stats, in order.
Query(q) ==
    CASE q = 1 -> CountAction("generate")
      [] q = 2 -> CountAction("decode")
      [] q = 3 -> CountAction("ocr")
      [] OTHER -> Cardinality({logs[i].ip : i \in DOMAIN logs})

\* What get_stats returns when no SELECT raises (line 93).
Snapshot == <<Query(1), Query(2), Query(3), Query(4)>>

\* "ID", "IP", and the Chinese for timestamp, action and details (line 245).
CsvHeader == <<"ID", "IP", "shijianchuo", "caozuo", "xiangqing">>
CsvRow(rec) == <<rec.id, rec.ip, rec.timestamp, rec.action, rec.details>>

\* --------------------------------------------------------------- limiter
\* limiter.limit("5/minute") keyed by get_remote_address, per endpoint.
AdmitInclusive(key) == hits[key] <= Quota
Admit(key) == hits[key] < Quota

\* ------------------------------------------------------------ event loop
\* Every handler is an `async def` without an await in its body: its code runs
\* on the event loop's thread until it returns.
CanRunInThreadPool(r) == TRUE
CanRun(r) == loop \in {0, r}

\* --------------------------------------------------------------- handlers
SuccessAction(path) ==
    CASE path = "/generate" -> "generate"
      [] path = "/decode"   -> "decode"
      [] OTHER              -> "ocr"

ErrorAction(path) ==
    CASE path = "/generate" -> "generate_error"
      [] path = "/decode"   -> "decode_error"
      [] OTHER              -> "ocr_error"

SuccessDetails(path, in) ==
    CASE path = "/generate" -> <<"text length", Len(in.text), "compress", in.compress>>
      [] path = "/decode"   -> <<"standard decode succeeded">>
      [] OTHER              -> <<"OCR extraction succeeded">>

\* str(e) of the exception the handler body raised.
ErrorDetail(path, kind) ==
    CASE kind = "validation"    -> "400: text must not be empty"
      [] kind = "capacity"      -> "400: text too long for a QR code"
      [] kind = "logo"          -> "400: logo image processing failed"
      [] kind = "decompression" -> "400: decompression failed, invalid compressed data"
      [] kind = "not_found" /\ path = "/decode" -> "400: no QR code detected"
      [] kind = "not_found"     -> "400: no text or chart content detected"
      [] OTHER                  -> "unexpected exception"

\* The status the blanket `except Exception` of the three handlers answers
\* with, whatever was raised (lines 175, 206, 230).
ErrorStatus(kind) == 400

\* Whether the handler's `except Exception` catches what its body raised
\* (lines 173, 204, 228): it catches everything.
CaughtHTTPExceptionOnly(kind) == kind # "fault"
Caught(kind) == TRUE

\* The tail of generate_qr, decode_qr and ocr_image: log_action and return on
\* success; on any exception log_action(<action>_error, str(e)) and raise
\* HTTPException.  An exception that leaves the except block leaves the
\* handler, and the server answers 500.
Respond(r, out, tried, body, ok) ==
    LET me == reqs[r]
        seq == seen[<<me.ip, me.path>>] + 1
        succ == out.kind = "ok"
        raised == LogActionRaises(ok)
        miss == IF ok THEN 0 ELSE 1
    IN IF succ /\ ~raised
       THEN /\ logs' = Inserted(ok, Row(r, SuccessAction(me.path),
                                        SuccessDetails(me.path, me.in)))
            /\ reqs' = [reqs EXCEPT ![r] =
                 [me EXCEPT !.pc = "responded", !.admitted = TRUE, !.seq = seq,
                            !.kind = out.kind, !.attempts = tried,
                            !.status = 200, !.body = body,
                            !.handled = 200, !.calls = @ + 1, !.lost = @ + miss]]
       ELSE IF ~Caught(out.kind)
       THEN /\ logs' = logs
            /\ reqs' = [reqs EXCEPT ![r] =
                 [me EXCEPT !.pc = "responded", !.admitted = TRUE, !.seq = seq,
                            !.kind = out.kind, !.attempts = tried,
                            !.status = 500, !.handled = 500,
                            !.detail = "Internal Server Error"]]
       ELSE LET detail == IF succ THEN "sqlite error"
                          ELSE ErrorDetail(me.path, out.kind)
                n == IF succ THEN 2 ELSE 1
                status == IF raised THEN 500 ELSE ErrorStatus(out.kind)
            IN /\ logs' = Inserted(ok, Row(r, ErrorAction(me.path), <<detail>>))
               /\ reqs' = [reqs EXCEPT ![r] =
                    [me EXCEPT !.pc = "responded", !.admitted = TRUE, !.seq = seq,
                               !.kind = out.kind, !.attempts = tried,
                               !.status = status,
                               !.detail = detail, !.handled = status,
                               !.calls = @ + n, !.lost = @ + n * miss]]

\* The wrapper limiter.limit puts around a handler: count the call, raise
\* RateLimitExceeded (answered 429 by _rate_limit_exceeded_handler) when the
\* window is used up, else run the handler.
LimitedCall(r, out, tried, body, ok) ==
    LET me == reqs[r]
        key == <<me.ip, me.path>>
    IN /\ seen' = [seen EXCEPT ![key] = @ + 1]
       /\ IF Admit(key)
          THEN /\ hits' = [hits EXCEPT ![key] = @ + 1]
               /\ Respond(r, out, tried, body, ok)
          ELSE /\ hits' = hits
               /\ logs' = logs
               /\ reqs' = [reqs EXCEPT ![r] =
                    [me EXCEPT !.pc = "responded", !.seq = seen[key] + 1,
                               !.status = 429, !.handled = 429,
                               !.detail = "429: rate limit exceeded: 5 per 1 minute"]]
       /\ UNCHANGED <<loop, cursor>>

Waiting(r, path) ==
    /\ r \in DOMAIN reqs
    /\ reqs[r].pc = "call_next"
    /\ reqs[r].path = path
    /\ CanRun(r)

\* log_requests up to `await call_next(request)` (lines 100-103).
Arrive(ip, path, in) ==
    /\ loop = 0
    /\ reqs' = Append(reqs, NewRequest(ip, path, in))
    /\ UNCHANGED <<loop, logs, cursor, hits, seen>>

generate_qr(r, ok) ==
    /\ Waiting(r, "/generate")
    /\ LET in == reqs[r].in
           out == Encode(in.text, in.compress, in.logo, in.fault)
       IN LimitedCall(r, out, out.attempts, [NoBody EXCEPT !.img = out.img], ok)

decode_qr(r, ok) ==
    /\ Waiting(r, "/decode")
    /\ LET in == reqs[r].in
           out == Decode(in.img, in.fault)
       IN LimitedCall(r, out, <<>>, [NoBody EXCEPT !.text = out.text], ok)

ocr_image(r, ok) ==
    /\ Waiting(r, "/ocr")
    /\ LET in == reqs[r].in
           out == Recognize(in.lines, in.fault)
       IN LimitedCall(r, out, <<>>, [NoBody EXCEPT !.text = out.text], ok)

\* One cursor.execute of get_stats, called by stats and by home.  A raised
\* sqlite error ends get_stats with the all-zero answer (lines 94-96).
get_stats_execute(r, ok) ==
    /\ r \in DOMAIN reqs
    /\ reqs[r].path \in {"/", "/stats"}
    /\ reqs[r].pc \in {"call_next", "execute"}
    /\ CanRun(r)
    /\ LET me == reqs[r]
           q == IF me.pc = "call_next" THEN 1 ELSE me.q
       IN IF ok
          THEN /\ cursor' = [owner |-> r, count |-> Query(q), rows |-> <<>>]
               /\ reqs' = [reqs EXCEPT ![r] =
                    [me EXCEPT !.pc = "fetch", !.q = q,
                               !.snap = IF q = 1 THEN Len(logs) ELSE @]]
               /\ loop' = r
          ELSE /\ cursor' = cursor
               /\ reqs' = [reqs EXCEPT ![r] =
                    [me EXCEPT !.pc = "responded", !.kind = "read_failed",
                               !.status = 200, !.handled = 200,
                               !.body = [NoBody EXCEPT !.stats = <<0, 0, 0, 0>>]]]
               /\ loop' = 0
    /\ UNCHANGED <<logs, hits, seen>>

\* cursor.fetchone()[0], which takes the one row of the result set; after the
\* fourth, get_stats returns and the handler answers.
get_stats_fetch(r) ==
    /\ r \in DOMAIN reqs
    /\ reqs[r].path \in {"/", "/stats"}
    /\ reqs[r].pc = "fetch"
    /\ CanRun(r)
    /\ LET me == reqs[r]
           acc == Append(me.acc, cursor.count)
           torn == me.torn \/ cursor.owner # r
       IN IF me.q = 4
          THEN /\ reqs' = [reqs EXCEPT ![r] =
                    [me EXCEPT !.pc = "responded", !.kind = "ok", !.acc = acc,
                               !.torn = torn, !.status = 200, !.handled = 200,
                               !.body = [NoBody EXCEPT !.stats = acc]]]
               /\ loop' = 0
          ELSE /\ reqs' = [reqs EXCEPT ![r] =
                    [me EXCEPT !.pc = "execute", !.q = @ + 1, !.acc = acc,
                               !.torn = torn]]
               /\ loop' = r
    /\ cursor' = NoResult
    /\ UNCHANGED <<logs, hits, seen>>

\* SELECT * FROM logs: sqlite walks the table in rowid order.
SelectAllNewestFirst == [i \in DOMAIN logs |-> CsvRow(logs[Len(logs) + 1 - i])]
SelectAll == [i \in DOMAIN logs |-> CsvRow(logs[i])]

export_logs_execute(r, ok) ==
    /\ Waiting(r, "/logs/export")
    /\ LET me == reqs[r]
       IN IF ok
          THEN /\ cursor' = [owner |-> r, count |-> 0, rows |-> SelectAll]
               /\ reqs' = [reqs EXCEPT ![r] =
                    [me EXCEPT !.pc = "fetch", !.snap = Len(logs)]]
               /\ loop' = r
          ELSE /\ cursor' = cursor
               /\ reqs' = [reqs EXCEPT ![r] =
                    [me EXCEPT !.pc = "responded", !.kind = "read_failed",
                               !.status = 500, !.handled = 500,
                               !.detail = "log export failed"]]
               /\ loop' = 0
    /\ UNCHANGED <<logs, hits, seen>>

export_logs_fetchall(r) ==
    /\ r \in DOMAIN reqs
    /\ reqs[r].path = "/logs/export"
    /\ reqs[r].pc = "fetch"
    /\ CanRun(r)
    /\ reqs' = [reqs EXCEPT ![r] =
         [@ EXCEPT !.pc = "responded", !.kind = "ok",
                   !.torn = cursor.owner # r, !.status = 200, !.handled = 200,
                   !.body = [NoBody EXCEPT !.rows = <<CsvHeader>> \o cursor.rows]]]
    /\ loop' = 0
    /\ cursor' = NoResult
    /\ UNCHANGED <<logs, hits, seen>>

health(r) ==
    /\ Waiting(r, "/health")
    /\ reqs' = [reqs EXCEPT ![r] =
         [@ EXCEPT !.pc = "responded", !.kind = "ok", !.status = 200,
                   !.handled = 200]]
    /\ UNCHANGED <<loop, logs, cursor, hits, seen>>

\* The paths log_requests writes an access row for (line 104).
IsLoggedPathAny(path) == TRUE
IsLoggedPath(path) == path \notin Limited

\* log_requests after call_next has returned the response (lines 104-106); an
\* exception of log_action would be re-raised by line 109.
log_requests(r, ok) ==
    /\ r \in DOMAIN reqs
    /\ reqs[r].pc = "responded"
    /\ CanRun(r)
    /\ LET me == reqs[r]
       IN IF IsLoggedPath(me.path)
          THEN /\ logs' = Inserted(ok, Row(r, "access", <<"access", me.path>>))
               /\ reqs' = [reqs EXCEPT ![r] =
                    [me EXCEPT !.pc = "done", !.calls = @ + 1,
                               !.lost = @ + (IF ok THEN 0 ELSE 1),
                               !.status = IF LogActionRaises(ok) THEN 500 ELSE @]]
          ELSE /\ logs' = logs
               /\ reqs' = [reqs EXCEPT ![r] = [me EXCEPT !.pc = "done"]]
    /\ UNCHANGED <<loop, cursor, hits, seen>>

\* The limiter's window of one key runs out, 60 seconds after its first call.
WindowExpire(key) ==
    /\ seen[key] > 0
    /\ hits' = [hits EXCEPT ![key] = 0]
    /\ seen' = [seen EXCEPT ![key] = 0]
    /\ UNCHANGED <<reqs, loop, logs, cursor>>

\* ------------------------------------------------------- specifications
InFlight == {r \in DOMAIN reqs : reqs[r].pc # "done"}

\* A client waits for its answer before it sends its next request: requests of
\* different clients are in flight together.
Idle(ip) == \A r \in InFlight : reqs[r].ip # ip

\* The steps of the server, with the sqlite outcomes drawn from `oks`.
Serve(oks) ==
    \/ \E r \in DOMAIN reqs, ok \in oks : generate_qr(r, ok)
    \/ \E r \in DOMAIN reqs, ok \in oks : decode_qr(r, ok)
    \/ \E r \in DOMAIN reqs, ok \in oks : ocr_image(r, ok)
    \/ \E r \in DOMAIN reqs, ok \in oks : get_stats_execute(r, ok)
    \/ \E r \in DOMAIN reqs : get_stats_fetch(r)
    \/ \E r \in DOMAIN reqs, ok \in oks : export_logs_execute(r, ok)
    \/ \E r \in DOMAIN reqs : export_logs_fetchall(r)
    \/ \E r \in DOMAIN reqs : health(r)
    \/ \E r \in DOMAIN reqs, ok \in oks : log_requests(r, ok)

\* The clients a next request can come from: the first one is named ip1.
Clients == IF reqs = <<>> THEN {"ip1"} ELSE IPs

\* The forms of the mixed workload: a success of each operation and a failure.
CoreSamples(path) ==
    CASE path = "/generate" -> {GenInput(<<"a">>, FALSE, "none", FALSE),
                                GenInput(<<>>, FALSE, "none", FALSE)}
      [] path = "/decode"   -> {DecInput(QRImage(<<"a">>, "L", FALSE), FALSE, 0)}
      [] path = "/ocr"      -> {OcrInput(<<"a">>, FALSE)}
      [] OTHER              -> {NoInput}

\* One valid form per endpoint.
ValidForm(path) ==
    CASE path = "/generate" -> GenInput(<<"a">>, FALSE, "none", FALSE)
      [] path = "/decode"   -> DecInput(QRImage(<<"a">>, "L", FALSE), FALSE, 0)
      [] OTHER              -> NoInput

MayArrive(ip, max) ==
    /\ Len(reqs) < max
    /\ Idle(ip)

\* Mixed workload: any client, any endpoint, sqlite failing at will.
Next ==
    \/ \E ip \in Clients, path \in Paths : \E in \in CoreSamples(path) :
          MayArrive(ip, MaxRequests) /\ Arrive(ip, path, in)
    \/ Serve(BOOLEAN)

Spec == Init /\ [][Next]_vars

\* Operations workload: the clients posting every sample form to the three
\* operation endpoints, sqlite failing at will.
NextOps ==
    \/ \E ip \in Clients, path \in Limited : \E in \in Samples(path) :
          MayArrive(ip, MaxRequests) /\ Arrive(ip, path, in)
    \/ \E r \in DOMAIN reqs, ok \in BOOLEAN : generate_qr(r, ok)
    \/ \E r \in DOMAIN reqs, ok \in BOOLEAN : decode_qr(r, ok)
    \/ \E r \in DOMAIN reqs, ok \in BOOLEAN : ocr_image(r, ok)
    \/ \E r \in DOMAIN reqs, ok \in BOOLEAN : log_requests(r, ok)

SpecOps == Init /\ [][NextOps]_vars

\* Burst workload: clients repeating one valid form against two endpoints, one
\* request after the other, until the quota is passed; the windows run out at
\* any time.
BurstLen == Quota + BurstExtra
BurstCalls ==
    {<<"ip1", "/generate">>, <<"ip1", "/decode">>, <<"ip2", "/generate">>}

NextBurst ==
    \/ \E call \in BurstCalls :
          /\ MayArrive(call[1], BurstLen)
          /\ InFlight = {}
          /\ Arrive(call[1], call[2], ValidForm(call[2]))
    \/ \E r \in DOMAIN reqs : generate_qr(r, TRUE)
    \/ \E r \in DOMAIN reqs : decode_qr(r, TRUE)
    \/ \E r \in DOMAIN reqs : log_requests(r, TRUE)
    \/ \E key \in Keys : WindowExpire(key)

SpecBurst == Init /\ [][NextBurst]_vars

\* Audit workload: two clients generating, reading the statistics and exporting
\* the table, sqlite failing at will.
AuditLen == MaxRequests + 1
AuditCalls ==
    {<<"ip1", "/generate">>, <<"ip2", "/stats">>, <<"ip1", "/logs/export">>}

NextAudit ==
    \/ \E call \in AuditCalls :
          /\ MayArrive(call[1], AuditLen)
          /\ Arrive(call[1], call[2], ValidForm(call[2]))
    \/ \E r \in DOMAIN reqs, ok \in BOOLEAN : generate_qr(r, ok)
    \/ \E r \in DOMAIN reqs, ok \in BOOLEAN : get_stats_execute(r, ok)
    \/ \E r \in DOMAIN reqs : get_stats_fetch(r)
    \/ \E r \in DOMAIN reqs, ok \in BOOLEAN : export_logs_execute(r, ok)
    \/ \E r \in DOMAIN reqs : export_logs_fetchall(r)
    \/ \E r \in DOMAIN reqs, ok \in BOOLEAN : log_requests(r, ok)

SpecAudit == Init /\ [][NextAudit]_vars

\* Round-trip workload: a client posts any text to /generate and posts the
\* image it got back to /decode.
NextRoundTrip ==
    \/ /\ reqs = <<>>
       /\ \E text \in Texts, compress \in BOOLEAN :
             Arrive("ip1", "/generate", GenInput(text, compress, "none", FALSE))
    \/ /\ Len(reqs) = 1
       /\ reqs[1].pc = "done"
       /\ reqs[1].status = 200
       /\ Arrive("ip1", "/decode", DecInput(reqs[1].body.img, FALSE, 1))
    \/ \E r \in DOMAIN reqs : generate_qr(r, TRUE)
    \/ \E r \in DOMAIN reqs : decode_qr(r, TRUE)
    \/ \E r \in DOMAIN reqs : log_requests(r, TRUE)

SpecRoundTrip == Init /\ [][NextRoundTrip]_vars

\* --------------------------------------------------------------- claims
Finished(r) == reqs[r].pc \in {"responded", "done"}
Done(r) == reqs[r].pc = "done"
RowsOf(r) == {i \in DOMAIN logs : logs[i].rid = r}
Ran(r) == Finished(r) /\ reqs[r].path \in Limited /\ reqs[r].admitted

SuccessActions == {"generate", "decode", "ocr"}
ErrorActions == {"generate_error", "decode_error", "ocr_error"}
ActionsOf(path) ==
    CASE path = "/generate" -> <<"generate", "generate_error">>
      [] path = "/decode"   -> <<"decode", "decode_error">>
      [] OTHER              -> <<"ocr", "ocr_error">>

\* C1 as stated: a request that entered the body of generate_qr, decode_qr or
\* ocr_image has, once the handler has finished, exactly one row of its own in
\* the audit table, the success action or the matching _error action.
C1_ExactlyOneRecord ==
    \A r \in DOMAIN reqs :
        Ran(r) =>
            /\ Cardinality(RowsOf(r)) = 1
            /\ \A i \in RowsOf(r) :
                  logs[i].action \in {ActionsOf(reqs[r].path)[1],
                                      ActionsOf(reqs[r].path)[2]}

\* C1 amended: such a request has at most one row of its own; it has exactly
\* one whenever the INSERT of log_action went through, the success action when
\* the operation succeeded and the _error action otherwise, and none when the
\* INSERT raised (log_action swallows that).
C1_OneRecordUnlessInsertFails ==
    \A r \in DOMAIN reqs :
        Ran(r) =>
            /\ reqs[r].calls = 1
            /\ Cardinality(RowsOf(r)) = (IF reqs[r].lost = 0 THEN 1 ELSE 0)
            /\ \A i \in RowsOf(r) :
                  logs[i].action =
                      ActionsOf(reqs[r].path)[IF reqs[r].kind = "ok" THEN 1 ELSE 2]

\* C1 witness: an unexpected exception was logged once as an _error row, and
\* another request's INSERT failed and left no row.
C1_Witness ==
    /\ \E r \in DOMAIN reqs :
          /\ Ran(r) /\ reqs[r].kind = "fault"
          /\ \E i \in RowsOf(r) : logs[i].action \in ErrorActions
    /\ \E r \in DOMAIN reqs :
          Ran(r) /\ reqs[r].lost = 1 /\ RowsOf(r) = {}

\* C2: of the calls one client makes to one limited endpoint within one window
\* of the limiter, the first 5 are admitted and every later one is answered
\* 429 without running the operation and without any row being written for it.
C2_SixthRejectedUnlogged ==
    \A r \in DOMAIN reqs :
        (Finished(r) /\ reqs[r].path \in Limited) =>
            /\ reqs[r].seq >= 1
            /\ reqs[r].seq <= 5 => (reqs[r].admitted /\ reqs[r].status # 429)
            /\ reqs[r].seq >= 6 =>
                  /\ ~reqs[r].admitted
                  /\ reqs[r].status = 429
                  /\ reqs[r].kind = "-"
                  /\ reqs[r].calls = 0
                  /\ RowsOf(r) = {}

\* C2 witness: a sixth call in a window was rejected and has left the middleware,
\* after five admitted calls of the same client to the same endpoint.
C2_Witness ==
    \E r \in DOMAIN reqs :
        /\ Done(r) /\ reqs[r].seq = 6 /\ reqs[r].status = 429
        /\ Cardinality({p \in DOMAIN reqs :
              /\ reqs[p].ip = reqs[r].ip /\ reqs[p].path = reqs[r].path
              /\ reqs[p].status = 200}) >= 5
        /\ Len(logs) = Len(reqs) - 1

AllDone == reqs # <<>> /\ \A r \in DOMAIN reqs : Done(r)
Succeeded(paths) ==
    {r \in DOMAIN reqs : Finished(r) /\ reqs[r].path \in paths /\ reqs[r].status = 200}
Recorded(paths) == {r \in Succeeded(paths) : reqs[r].lost = 0}
Writers == {r \in DOMAIN reqs : reqs[r].calls > reqs[r].lost}

\* C3 as stated: once the requests are through, get_stats reports the number of
\* successful generations, decodes and OCR calls, and as unique_users the number
\* of distinct clients those successful operations came from.
C3_CountsAndUsersOfSuccesses ==
    AllDone =>
        Snapshot = <<Cardinality(Succeeded({"/generate"})),
                     Cardinality(Succeeded({"/decode"})),
                     Cardinality(Succeeded({"/ocr"})),
                     Cardinality({reqs[r].ip : r \in Succeeded(Limited)})>>

\* C3 amended: get_stats, when its SELECTs do not raise, reports the successful
\* generations, decodes and OCR calls whose row was inserted, and as unique_users
\* the number of distinct clients that have any row in the table: access rows and
\* _error rows count as well.
C3_CountsOfRowsUsersOfAllRows ==
    Snapshot = <<Cardinality(Recorded({"/generate"})),
                 Cardinality(Recorded({"/decode"})),
                 Cardinality(Recorded({"/ocr"})),
                 Cardinality({reqs[r].ip : r \in Writers})>>

\* C3 witness: one client generated successfully, another only read a page or
\* failed an operation, and unique_users is 2.
C3_Witness ==
    /\ AllDone
    /\ Snapshot[1] = 1
    /\ Snapshot[4] = 2
    /\ Cardinality({reqs[r].ip : r \in Succeeded(Limited)}) = 1

RECURSIVE Calls(_)
Calls(n) == IF n = 0 THEN 0 ELSE reqs[n].calls + Calls(n - 1)
RECURSIVE Lost(_)
Lost(n) == IF n = 0 THEN 0 ELSE reqs[n].lost + Lost(n - 1)

NoTornRead == \A r \in DOMAIN reqs : ~reqs[r].torn

\* The statistics over the first n rows of the table.
StatsOfPrefix(n) ==
    LET pre == SubSeq(logs, 1, n)
        count(a) == Cardinality({i \in 1..n : pre[i].action = a})
    IN <<count("generate"), count("decode"), count("ocr"),
         Cardinality({pre[i].ip : i \in 1..n})>>

\* C5 as stated: the table holds as many rows as log_action was called (every
\* call returns), and no read returns another request's result.
C5_RowsEqualAppends ==
    /\ Len(logs) = Calls(Len(reqs))
    /\ NoTornRead

\* C5 amended: every call of log_action whose INSERT goes through adds exactly
\* one row and a call whose INSERT raises returns having added none, so the
\* table holds as many rows as there were successful INSERTs, with ids 1, 2, ...
\* and no row twice; every fetch of get_stats and export_logs reads the result
\* of its own execute, and the answer is that of one state of the table.
C5_RowsEqualSuccessfulAppends ==
    /\ Len(logs) = Calls(Len(reqs)) - Lost(Len(reqs))
    /\ \A i \in DOMAIN logs : logs[i].id = i
    /\ \A r \in DOMAIN reqs : Cardinality(RowsOf(r)) = reqs[r].calls - reqs[r].lost
    /\ NoTornRead
    /\ \A r \in DOMAIN reqs :
          (Finished(r) /\ reqs[r].kind = "ok") =>
              /\ reqs[r].path \in {"/", "/stats"} =>
                    reqs[r].body.stats = StatsOfPrefix(reqs[r].snap)
              /\ reqs[r].path = "/logs/export" =>
                    Len(reqs[r].body.rows) = 1 + reqs[r].snap

\* C5 witness: a request is between execute and fetch of a read while another
\* request waits to write its access row, and an INSERT has raised before.
C5_Witness ==
    /\ \E r, p \in DOMAIN reqs :
          /\ reqs[r].pc = "fetch"
          /\ reqs[p].pc = "responded"
          /\ reqs[p].path \notin Limited
    /\ Lost(Len(reqs)) >= 1

\* C6: the answer of a request does not depend on whether log_action's INSERT
\* raised: what the handler answered is what the client gets after the access
\* row was attempted, and two requests with the same form to the same operation
\* get the same status, message and payload, whether or not their rows were
\* written.
C6_LogFailureLeavesResponse ==
    /\ \A r \in DOMAIN reqs : Done(r) => reqs[r].status = reqs[r].handled
    /\ \A r \in DOMAIN reqs : Ran(r) => reqs[r].status \in {200, 400}
    /\ \A r, p \in DOMAIN reqs :
          (Ran(r) /\ Ran(p) /\ reqs[r].path = reqs[p].path /\ reqs[r].in = reqs[p].in) =>
              /\ reqs[r].status = reqs[p].status
              /\ reqs[r].detail = reqs[p].detail
              /\ reqs[r].body = reqs[p].body

\* C6 witness: two requests with the same valid form, one whose row was written
\* and one whose INSERT raised, both answered 200; and a page whose access row
\* was lost.
C6_Witness ==
    /\ \E r, p \in DOMAIN reqs :
          /\ Ran(r) /\ Ran(p) /\ reqs[r].in = reqs[p].in
          /\ reqs[r].path = reqs[p].path
          /\ reqs[r].lost = 1 /\ reqs[p].lost = 0
          /\ reqs[r].status = 200 /\ reqs[p].status = 200

\* C7 as stated: validation, not-found, capacity, decompression and logo
\* failures are answered 4xx, an unexpected exception in the handler 5xx.
C7_StatusByKind ==
    \A r \in DOMAIN reqs :
        Ran(r) =>
            /\ reqs[r].kind \in {"validation", "not_found", "capacity",
                                 "decompression", "logo"} =>
                  reqs[r].status \in 400..499
            /\ reqs[r].kind = "fault" => reqs[r].status \in 500..599

Exports == {r \in DOMAIN reqs : Finished(r) /\ reqs[r].path = "/logs/export"}
OldestFirst(rows, n) ==
    \A i \in 1..n :
        rows[i + 1] = <<i, logs[i].ip, logs[i].timestamp, logs[i].action,
                        logs[i].details>>

\* C8 as stated: every export answers with the header row ID, IP, Timestamp,
\* Action, Details and one row per record of the table, oldest first.
C8_HeaderAndAllRows ==
    \A r \in Exports :
        /\ reqs[r].status = 200
        /\ Len(reqs[r].body.rows) = 1 + reqs[r].snap
        /\ reqs[r].body.rows[1] = <<"ID", "IP", "Timestamp", "Action", "Details">>
        /\ OldestFirst(reqs[r].body.rows, reqs[r].snap)

\* C8 amended: an export whose SELECT does not raise answers with the header
\* row of line 245 (ID, IP and the Chinese words for timestamp, action and
\* details) and one row per record of the table at that time, in ascending id;
\* an export whose SELECT raises answers 500 with no rows.
C8_SourceHeaderAndAllRows ==
    \A r \in Exports :
        /\ reqs[r].kind = "ok" =>
              /\ reqs[r].status = 200
              /\ Len(reqs[r].body.rows) = 1 + reqs[r].snap
              /\ reqs[r].body.rows[1] =
                    <<"ID", "IP", "shijianchuo", "caozuo", "xiangqing">>
              /\ OldestFirst(reqs[r].body.rows, reqs[r].snap)
        /\ reqs[r].kind # "ok" =>
              /\ reqs[r].status = 500
              /\ reqs[r].body.rows = <<>>

\* C8 witness: an export of a table of at least two rows, and an export that
\* failed.
C8_Witness ==
    /\ \E r \in Exports : reqs[r].kind = "ok" /\ reqs[r].snap >= 2
    /\ \E r \in Exports : reqs[r].status = 500

AccessRowsOf(r) == {i \in RowsOf(r) : logs[i].action = "access"}

\* C10 as stated: access rows are written only for paths other than the three
\* operations, after the response, with the path; every finished request to
\* another path has exactly one.
C10_OneAccessRow ==
    /\ \A i \in DOMAIN logs :
          logs[i].action = "access" =>
              /\ reqs[logs[i].rid].path \notin Limited
              /\ logs[i].details = <<"access", reqs[logs[i].rid].path>>
              /\ Done(logs[i].rid)
    /\ \A r \in DOMAIN reqs :
          IF reqs[r].path \in Limited
          THEN AccessRowsOf(r) = {}
          ELSE Done(r) => Cardinality(AccessRowsOf(r)) = 1

\* C10 amended: as stated, but a finished request to another path has exactly
\* one access row when the INSERT of log_action went through and none when it
\* raised; it never has two.
C10_OneAccessRowUnlessInsertFails ==
    /\ \A i \in DOMAIN logs :
          logs[i].action = "access" =>
              /\ reqs[logs[i].rid].path \notin Limited
              /\ logs[i].details = <<"access", reqs[logs[i].rid].path>>
              /\ Done(logs[i].rid)
              /\ reqs[logs[i].rid].status # 0
    /\ \A r \in DOMAIN reqs :
          IF reqs[r].path \in Limited
          THEN AccessRowsOf(r) = {}
          ELSE /\ ~Done(r) => RowsOf(r) = {}
               /\ Done(r) =>
                     Cardinality(AccessRowsOf(r)) = (IF reqs[r].lost = 0 THEN 1 ELSE 0)

\* C10 witness: a page with its access row, a page whose access row was lost,
\* and an operation request that is done.
C10_Witness ==
    /\ \E r \in DOMAIN reqs :
          Done(r) /\ reqs[r].path \notin Limited /\ Cardinality(AccessRowsOf(r)) = 1
    /\ \E r \in DOMAIN reqs :
          Done(r) /\ reqs[r].path \notin Limited /\ reqs[r].lost = 1

\* C4 as stated: decoding the image that generate_qr made of a non-empty text
\* without compression answers with that text, also when the text ends with
\* "|compressed".
C4_RoundTripUncompressed ==
    \A r \in DOMAIN reqs :
        (Finished(r) /\ reqs[r].path = "/decode" /\ reqs[r].in.src # 0
            /\ ~reqs[reqs[r].in.src].in.compress) =>
            /\ reqs[r].status = 200
            /\ reqs[r].body.text = reqs[reqs[r].in.src].in.text

Generations == {r \in DOMAIN reqs : Ran(r) /\ reqs[r].path = "/generate"}
Overflows(r, cap) == Len(Payload(reqs[r].in.text, reqs[r].in.compress)) > cap

\* What C9 says of every generation of a non-empty text: level L is asked for
\* first; level M is asked for next, once, exactly when L overflowed; when both
\* overflow the answer is the capacity failure, a 400 that is not the empty-text
\* failure, without an image.
C9_RetryOnce ==
    \A r \in Generations :
        reqs[r].in.text # <<>> =>
            /\ Len(reqs[r].attempts) \in {1, 2}
            /\ reqs[r].attempts[1] = "L"
            /\ Len(reqs[r].attempts) = 2 <=> Overflows(r, CapL)
            /\ Len(reqs[r].attempts) = 2 => reqs[r].attempts[2] = "M"
            /\ (Overflows(r, CapL) /\ Overflows(r, CapM)) =>
                  /\ reqs[r].kind = "capacity"
                  /\ reqs[r].status = 400
                  /\ reqs[r].detail # "400: text must not be empty"
                  /\ ~reqs[r].body.img.qr

\* C9 as stated: the above, and, the retry being there to be taken, some text
\* that overflows the first attempt is encoded by the retry.
C9_RetryCanSucceed ==
    /\ C9_RetryOnce
    /\ (\E r \in Generations : Len(reqs[r].attempts) = 2) =>
       \E text \in Texts \ {<<>>}, compress \in BOOLEAN :
          LET out == Encode(text, compress, "none", FALSE)
          IN Len(out.attempts) = 2 /\ out.kind = "ok"

\* C9 amended: the above, and a text that overflows the first attempt overflows
\* the retry as well, level M holding less than level L: the retry never
\* succeeds and every such request ends in the capacity failure.
C9_RetryNeverSucceeds ==
    /\ C9_RetryOnce
    /\ \A r \in Generations :
          Len(reqs[r].attempts) = 2 =>
              /\ Overflows(r, CapM)
              /\ reqs[r].kind = "capacity"
              /\ reqs[r].status = 400

\* C9 witness: a text one symbol over the capacity of level L was tried at L and
\* at M and refused, and a text within capacity was encoded at L.
C9_Witness ==
    \E r \in Generations :
        /\ Done(r)
        /\ Len(reqs[r].in.text) = CapL + 1
        /\ reqs[r].attempts = <<"L", "M">>
        /\ reqs[r].status = 400
====
